---- MODULE Spec2Model ----
(***************************************************************************)
(* A model of the hoordu core (src/hoordu/hoordu.py) and of the plugin     *)
(* base classes (src/hoordu/plugins/base.py).                              *)
(*                                                                         *)
(* Five specifications share the variables:                                *)
(*   SpecRegistry  the Service registry      (hoordu.register_service)     *)
(*   SpecRace      two register_service calls on two units of work         *)
(*   SpecStorage   the storage manager       (hoordu.import_file)          *)
(*   SpecExt       the ext of a file name    (hoordu.import_file line 52)  *)
(*   SpecPlugin    the plugin/iterator layer (PluginBase and subclasses)   *)
(* Each of them leaves the variables of the other parts at their initial   *)
(* values.                                                                 *)
(***************************************************************************)
EXTENDS Integers, Sequences, FiniteSets, TLC

VARIABLES
    services,   \* the Service rows the session knows, in creation order
    file,       \* the models.File object handed to import_file
    next_id,    \* the id the store gives to the next File it flushes
    slot_size,  \* config.files_slot_size
    sources,    \* the source paths that exist on the filesystem
    disk,       \* what is stored under the files and thumbs roots
    plugin,     \* the plugin instance: its class and what the class overrides
    subscriptions, \* the Subscription rows the session knows, in creation order
    iterators,  \* the iterator objects created so far
    call,       \* the subscribe call in progress, if any
    last        \* the last completed call: its arguments and its outcome

\* Python's None, for attributes whose values are integers (ids, indices).
\* The store assigns ids from 1 upwards.
None == 0

-----------------------------------------------------------------------------
(* Service registry                                                        *)

ServiceNames == {"pixiv", "twitter", "danbooru"}
MaxVersion == 2
MaxInitialServices == 2

\* models.Service as the session sees it.  orm is the object's state in
\* the unit of work: "pending" after add(), "persistent" after flush().
\* A row's identity is its position in services; flush() assigns it as id.
ServiceRow == [name : ServiceNames, version : 0..MaxVersion,
               id : {None}, orm : {"persistent"}]

\* A store as an earlier run may have left it: every row flushed, ids
\* assigned, names unique, versions as the adapters' update routines left
\* them.
InitialStores ==
    { [i \in DOMAIN s |-> [s[i] EXCEPT !.id = i]] :
        s \in { t \in UNION { [1..n -> ServiceRow] : n \in 0..MaxInitialServices } :
                  \A i, j \in DOMAIN t : t[i].name = t[j].name => i = j } }

\* hoordu.add: session.add_all(args), the object becomes pending.
add(rows, obj) == Append(rows, [obj EXCEPT !.orm = "pending"])

\* hoordu.flush: session.flush(), every pending object is written and gets
\* its id.
flush(rows) ==
    [i \in DOMAIN rows |->
        IF rows[i].orm = "pending"
        THEN [rows[i] EXCEPT !.orm = "persistent", !.id = i]
        ELSE rows[i]]

\* A lookup that never finds the row it is asked for.
QueryFindsNothing(rows, name) == {}

\* session.query(models.Service).filter(models.Service.name==name): the
\* query flushes what is pending (autoflush) and selects by name.
QueryServiceByName(rows, name) ==
    { i \in DOMAIN rows : rows[i].orm = "persistent" /\ rows[i].name = name }

\* A new Service that starts at version 1.
NewServiceVersionOne(name) ==
    [name |-> name, version |-> 1, id |-> None, orm |-> "transient"]

\* models.Service(name=name, version=0)
NewService(name) == [name |-> name, version |-> 0, id |-> None, orm |-> "transient"]

\* hoordu.register_service
register_service(name) ==
    LET flushed == flush(services)
        found   == QueryServiceByName(flushed, name)
    IN  IF Cardinality(found) > 1
        THEN \* one_or_none() raises MultipleResultsFound
             /\ services' = flushed
             /\ last' = [op |-> "register_service", name |-> name,
                         result |-> "MultipleResultsFound", service |-> None,
                         created |-> FALSE]
        ELSE IF found # {}
        THEN /\ services' = flushed
             /\ last' = [op |-> "register_service", name |-> name,
                         result |-> "ok", service |-> CHOOSE i \in found : TRUE,
                         created |-> FALSE]
        ELSE /\ services' = flush(add(flushed, NewService(name)))
             /\ last' = [op |-> "register_service", name |-> name,
                         result |-> "ok", service |-> Len(flushed) + 1,
                         created |-> TRUE]

vars == <<services, file, next_id, slot_size, sources, disk,
          plugin, subscriptions, iterators, call, last>>

storage_vars == <<file, next_id, slot_size, sources, disk>>

plugin_vars == <<plugin, subscriptions, iterators, call>>

NoCall == [op |-> "none"]

\* No subscribe call is in progress.
Idle == [pc |-> "idle"]

\* The plugin layer before any plugin is set up.
PluginIdle ==
    /\ plugin = [cls |-> "PluginBase", iterator |-> "None", repr |-> "base", source |-> None]
    /\ subscriptions = <<>>
    /\ iterators = <<>>
    /\ call = Idle

-----------------------------------------------------------------------------
(* Storage manager                                                         *)

\* A str is a sequence of tokens: "." or a run of other characters.
\* NoneStr is Python's None for a str-valued attribute.
NoneStr == <<"None">>

\* The files the caller can name as orig or thumb: their file name and
\* their content.
SourceTable == <<
    [name |-> <<"photo", ".", "jpeg">>,             bytes |-> 1],
    [name |-> <<"archive", ".", "tar", ".", "gz">>, bytes |-> 2],
    [name |-> <<"cover">>,                          bytes |-> 3] >>

SourcePaths == DOMAIN SourceTable
\* The paths callers pass as orig and as thumb; path 1 serves as both.
OrigPaths == {1, 2}
ThumbPaths == {1, 3}
MaxFirstId == 2
MaxSlotSize == 2

\* What is left at a destination when a transfer broke off after it had
\* started to write.
PartialBytes == 0

\* util.md5: the digest of the file's content.
md5(path) == << <<"c4ca4238", "c81e728d", "eccbc87e">>[SourceTable[path].bytes] >>

\* util.mime_from_file: the classification of the file's content.
mime_from_file(path) ==
    << <<"image/jpeg", "application/gzip", "image/png">>[SourceTable[path].bytes] >>

\* str.lstrip('.')
RECURSIVE LStripDots(_)
LStripDots(name) ==
    IF name # <<>> /\ Head(name) = "." THEN LStripDots(Tail(name)) ELSE name

\* pathlib.PurePath.suffixes, joined: '' when the name ends with a dot,
\* else everything from the first dot that follows the name's leading dots.
JoinedSuffixes(name) ==
    IF name # <<>> /\ name[Len(name)] = "."
    THEN <<>>
    ELSE LET stem == LStripDots(name)
             dots == { i \in DOMAIN stem : stem[i] = "." }
         IN  IF dots = {}
             THEN <<>>
             ELSE LET first == CHOOSE i \in dots : \A j \in dots : i <= j
                  IN  SubSeq(stem, first, Len(stem))

\* The extension as os.path.splitext has it: the last suffix only.
ExtOfLastSuffix(name) ==
    LET dots == { i \in DOMAIN name : name[i] = "." }
    IN  IF dots = {} \/ name[Len(name)] = "."
        THEN <<>>
        ELSE LET final == CHOOSE i \in dots : \A j \in dots : j <= i
             IN  IF LStripDots(SubSeq(name, 1, final)) = <<>>
                 THEN <<>>
                 ELSE SubSeq(name, final + 1, Len(name))

\* ''.join(pathlib.Path(orig).suffixes)[1:]
ExtOf(name) == LET joined == JoinedSuffixes(name)
               IN  IF joined = <<>> THEN <<>> ELSE Tail(joined)

\* A new models.File, not yet flushed.
NewFile == [id |-> None, hash |-> NoneStr, mime |-> NoneStr, ext |-> NoneStr,
            file_present |-> FALSE, thumb_present |-> FALSE]

\* The truth value of a str attribute: None and '' are false.
Truthy(str) == str # NoneStr /\ str # <<>>

\* hoordu._file_slot (the id is an integer here)
_file_slot(f) == f.id \div slot_size

\* A path under one of the two roots: root/slot/id + suffix.
Path(root, slot, id, suffix) ==
    [root |-> root, slot |-> slot, id |-> id, suffix |-> suffix]

\* An original stored under a name that carries the File's ext.
GetFilePathsWithExt(f) ==
    << IF Truthy(f.ext)
       THEN Path("files", _file_slot(f), f.id, <<".">> \o f.ext)
       ELSE Path("files", _file_slot(f), f.id, <<>>),
       Path("thumbs", _file_slot(f), f.id, <<".", "jpg">>) >>

\* hoordu._get_file_paths (the id is an integer here)
_get_file_paths(f) ==
    << IF Truthy(f.ext)
       THEN Path("files", _file_slot(f), f.id, <<>>)
       ELSE Path("files", _file_slot(f), f.id, <<>>),
       Path("thumbs", _file_slot(f), f.id, <<".", "jpg">>) >>

\* The outcomes of one mkdir + transfer, as the filesystem decides:
\*   "ok"       the bytes are in place;
\*   "error"    mkdir or the transfer raised before anything was written;
\*   "partial"  the transfer raised after it had begun to write.
IOOutcomes == {"ok", "error", "partial"}

\* The state import_file works on while it runs: the File, the filesystem,
\* and the exception raised so far ("no" while none), with the statement
\* that raised it.
Running(f) == [file |-> f, disk |-> disk, sources |-> sources,
               raised |-> "no", at |-> "none", paths |-> <<>>]

Raise(m, exc, at) == [m EXCEPT !.raised = exc, !.at = at]

\* A call that sets the presence flag before the transfer is attempted.
PutFlagFirst(m, src, dst, flag, move, io) ==
    LET set == IF flag = "orig" THEN [m EXCEPT !.file.file_present = TRUE]
                                ELSE [m EXCEPT !.file.thumb_present = TRUE]
    IN  IF src \notin m.sources \/ io # "ok"
        THEN Raise(set, "OSError", flag)
        ELSE [set EXCEPT !.disk = (dst :> SourceTable[src].bytes) @@ m.disk,
                         !.sources = IF move THEN m.sources \ {src} ELSE m.sources]

\* A transfer that, once done, leaves only its own presence flag set.
PutResettingOther(m, src, dst, flag, move, io) ==
    IF src \notin m.sources
    THEN Raise(m, "FileNotFoundError", flag)
    ELSE IF io # "ok"
    THEN Raise(m, "OSError", flag)
    ELSE [m EXCEPT !.disk = (dst :> SourceTable[src].bytes) @@ m.disk,
                   !.sources = IF move THEN m.sources \ {src} ELSE m.sources,
                   !.file.file_present = (flag = "orig"),
                   !.file.thumb_present = (flag = "thumb")]

\* import_file lines 57-59 (flag = "orig") and 62-64 (flag = "thumb"):
\* mkdir, mvfun(src, dst) with mvfun = shutil.move or shutil.copy, and the
\* presence flag once mvfun has returned.
Put(m, src, dst, flag, move, io) ==
    IF src \notin m.sources
    THEN Raise(m, "FileNotFoundError", flag)
    ELSE IF io = "error"
    THEN Raise(m, "OSError", flag)
    ELSE IF io = "partial"
    THEN Raise([m EXCEPT !.disk = (dst :> PartialBytes) @@ m.disk], "OSError", flag)
    ELSE LET done == [m EXCEPT
                        !.disk = (dst :> SourceTable[src].bytes) @@ m.disk,
                        !.sources = IF move THEN m.sources \ {src} ELSE m.sources]
         IN  IF flag = "orig" THEN [done EXCEPT !.file.file_present = TRUE]
                              ELSE [done EXCEPT !.file.thumb_present = TRUE]

\* Metadata that is filled in once: a hash already set is kept.
ReadMetadataKeepingHash(m, orig) ==
    IF orig \notin m.sources
    THEN Raise(m, "FileNotFoundError", "metadata")
    ELSE [m EXCEPT !.file.hash = IF @ = NoneStr THEN md5(orig) ELSE @,
                   !.file.mime = mime_from_file(orig),
                   !.file.ext  = ExtOf(SourceTable[orig].name)]

\* import_file lines 49-52: hash, mime and ext from the original.
ReadMetadata(m, orig) ==
    IF orig \notin m.sources
    THEN Raise(m, "FileNotFoundError", "metadata")
    ELSE [m EXCEPT !.file.hash = md5(orig),
                   !.file.mime = mime_from_file(orig),
                   !.file.ext  = ExtOf(SourceTable[orig].name)]

\* Paths computed with an unset id read as 0.
ComputePathsNoneAsZero(m) == [m EXCEPT !.paths = _get_file_paths(m.file)]

\* import_file line 54: None // slot_size is a TypeError.
ComputePaths(m) ==
    IF m.file.id = None
    THEN Raise(m, "TypeError", "paths")
    ELSE [m EXCEPT !.paths = _get_file_paths(m.file)]

\* hoordu.import_file, as a function of the state it starts in.
ImportFileRun(f, orig, thumb, move, io_orig, io_thumb) ==
    LET m1 == IF orig # None THEN ReadMetadata(Running(f), orig) ELSE Running(f)
        m2 == IF m1.raised = "no" THEN ComputePaths(m1) ELSE m1
        m3 == IF m2.raised = "no" /\ orig # None
              THEN Put(m2, orig, m2.paths[1], "orig", move, io_orig) ELSE m2
        m4 == IF m3.raised = "no" /\ thumb # None
              THEN Put(m3, thumb, m3.paths[2], "thumb", move, io_thumb) ELSE m3
    IN  m4

\* hoordu.import_file
import_file(orig, thumb, move, io_orig, io_thumb) ==
    /\ orig = None => io_orig = "ok"
    /\ (thumb = None \/ io_orig # "ok") => io_thumb = "ok"
    /\ LET m == ImportFileRun(file, orig, thumb, move, io_orig, io_thumb)
       IN  /\ file' = m.file
           /\ disk' = m.disk
           /\ sources' = m.sources
           /\ last' = [op |-> "import_file", orig |-> orig, thumb |-> thumb,
                       move |-> move, result |-> m.raised, at |-> m.at,
                       io_orig |-> io_orig, io_thumb |-> io_thumb,
                       paths |-> m.paths]
    /\ UNCHANGED <<next_id, slot_size>>

\* A call of hoordu._get_file_paths(file) on its own.
get_file_paths ==
    /\ last' = IF file.id = None
               THEN [op |-> "_get_file_paths", result |-> "TypeError", paths |-> <<>>]
               ELSE [op |-> "_get_file_paths", result |-> "no",
                     paths |-> _get_file_paths(file)]
    /\ UNCHANGED storage_vars

\* hoordu.add(file) and hoordu.flush(): the store assigns the File its id.
add_and_flush_file ==
    /\ file.id = None
    /\ file' = [file EXCEPT !.id = next_id]
    /\ next_id' = next_id + 1
    /\ last' = [op |-> "flush"]
    /\ UNCHANGED <<slot_size, sources, disk>>

StorageIdle ==
    /\ file = NewFile
    /\ next_id = 1
    /\ slot_size = 1
    /\ sources = {}
    /\ disk = <<>>

InitStorage ==
    /\ services = <<>>
    /\ PluginIdle
    /\ file = NewFile
    /\ next_id \in 1..MaxFirstId
    /\ slot_size \in 1..MaxSlotSize
    /\ sources = SourcePaths
    /\ disk = <<>>
    /\ last = NoCall

NextStorage ==
    \/ \E orig \in OrigPaths \cup {None}, thumb \in ThumbPaths \cup {None},
          move \in BOOLEAN, io_orig, io_thumb \in IOOutcomes :
            /\ import_file(orig, thumb, move, io_orig, io_thumb)
            /\ UNCHANGED <<services, plugin_vars>>
    \/ get_file_paths /\ UNCHANGED <<services, plugin_vars>>
    \/ add_and_flush_file /\ UNCHANGED <<services, plugin_vars>>

SpecStorage == InitStorage /\ [][NextStorage]_vars

\* The file names the ext is computed for: those of SourceTable and every
\* name of up to MaxNameLen tokens that is not made of dots alone.
MaxNameLen == 4
NameTokens == {"a", "gz", "."}
FileNames ==
    { SourceTable[p].name : p \in SourcePaths } \cup
    { name \in UNION { [1..n -> NameTokens] : n \in 1..MaxNameLen } :
        \E i \in DOMAIN name : name[i] # "." }

\* import_file line 52 alone, for the original whose name is last.name.
ext_from_suffixes ==
    /\ last.op = "Path"
    /\ file' = [file EXCEPT !.ext = ExtOf(last.name)]
    /\ last' = [op |-> "ext", name |-> last.name]
    /\ UNCHANGED <<next_id, slot_size, sources, disk>>

InitExt ==
    /\ services = <<>>
    /\ PluginIdle
    /\ StorageIdle
    /\ \E name \in FileNames : last = [op |-> "Path", name |-> name]

NextExt == ext_from_suffixes /\ UNCHANGED <<services, plugin_vars>>

SpecExt == InitExt /\ [][NextExt]_vars

-----------------------------------------------------------------------------
(* Storage manager: properties                                             *)

\* C3: the presence flags are independently additive over import_file
\* calls: a call with only an original that returns has set file_present
\* and leaves thumb_present as it was, a call with only a thumbnail that
\* returns has set thumb_present and leaves file_present as it was, and no
\* call, failed or not, turns a flag from true to false.
C3_PresenceFlagsAdditive ==
    [][ (last'.op = "import_file") =>
          /\ file.file_present => file'.file_present
          /\ file.thumb_present => file'.thumb_present
          /\ (last'.orig # None /\ last'.thumb = None) =>
                /\ file'.thumb_present = file.thumb_present
                /\ last'.result = "no" => file'.file_present
          /\ (last'.orig = None /\ last'.thumb # None) =>
                /\ file'.file_present = file.file_present
                /\ last'.result = "no" => file'.thumb_present
      ]_vars

\* A call with only a thumbnail returned on a File whose original was
\* there: both flags are set.
C3_Witness ==
    /\ last.op = "import_file"
    /\ last.orig = None /\ last.thumb # None
    /\ last.result = "no"
    /\ file.file_present /\ file.thumb_present

\* The paths of a File with an id, from the id and the slot size alone.
ExpectedPaths(id) ==
    << [root |-> "files", slot |-> id \div slot_size, id |-> id, suffix |-> <<>>],
       [root |-> "thumbs", slot |-> id \div slot_size, id |-> id,
        suffix |-> <<".", "jpg">>] >>

\* C5: the paths _get_file_paths returns are files/<id div slot_size>/<id>
\* and thumbs/<id div slot_size>/<id>.jpg, whatever the File's ext, hash,
\* mime and presence flags are at the time of the call.
C5_PathsDependOnIdOnly ==
    /\ (last.op = "_get_file_paths" /\ file.id # None) =>
            last.paths = ExpectedPaths(file.id)
    /\ (last.op = "import_file" /\ last.at \notin {"metadata", "paths"}) =>
            last.paths = ExpectedPaths(file.id)

\* The paths were asked for a File that has an ext and whose id lies past
\* the first slot.
C5_Witness ==
    /\ last.op = "_get_file_paths"
    /\ last.result = "no"
    /\ Truthy(file.ext)
    /\ slot_size > 1
    /\ file.id \div slot_size >= 1
    /\ last.paths = ExpectedPaths(file.id)

\* The sources left once the original of the call has been transferred.
SourcesAfterOrig == IF last'.move THEN sources \ {last'.orig} ELSE sources

\* C6: import_file with both an original and a thumbnail, one of whose
\* transfers fails: the call raises, the flag of the failed artifact is as
\* before, and when it is the thumbnail that failed the original's flag is
\* set and its bytes are at the original's path.
C6_FailedTransferKeepsTheOther ==
    [][ ( /\ last'.op = "import_file"
          /\ last'.orig # None /\ last'.thumb # None
          /\ file.id # None /\ last'.orig \in sources ) =>
          /\ last'.io_orig # "ok" =>
                /\ last'.result # "no"
                /\ file'.file_present = file.file_present
                /\ file'.thumb_present = file.thumb_present
                /\ \A p \in DOMAIN disk :
                      p.root = "thumbs" => p \in DOMAIN disk' /\ disk'[p] = disk[p]
          /\ ( /\ last'.io_orig = "ok"
                /\ (last'.io_thumb # "ok" \/ last'.thumb \notin SourcesAfterOrig) ) =>
                /\ last'.result # "no"
                /\ file'.file_present
                /\ file'.thumb_present = file.thumb_present
                /\ ExpectedPaths(file.id)[1] \in DOMAIN disk'
                /\ disk'[ExpectedPaths(file.id)[1]] = SourceTable[last'.orig].bytes
      ]_vars

\* The thumbnail's transfer failed after the original's had succeeded.
C6_Witness ==
    /\ last.op = "import_file"
    /\ last.orig # None /\ last.thumb # None
    /\ last.result # "no" /\ last.at = "thumb"
    /\ file.file_present /\ ~file.thumb_present
    /\ disk[last.paths[1]] = SourceTable[last.orig].bytes

\* C10: import_file on a File whose id is unset raises, whatever orig,
\* thumb and move are; nothing is moved or copied and no flag is set.
C10_UnsetIdFails ==
    [][ (last'.op = "import_file" /\ file.id = None) =>
          /\ last'.result # "no"
          /\ disk' = disk
          /\ sources' = sources
          /\ file'.file_present = file.file_present
          /\ file'.thumb_present = file.thumb_present
      ]_vars

\* A call with an original, a thumbnail and move on a File without id
\* raised TypeError after it had read the original's metadata.
C10_Witness ==
    /\ last.op = "import_file"
    /\ file.id = None
    /\ last.orig # None /\ last.thumb # None /\ last.move
    /\ last.result = "TypeError"
    /\ file.hash # NoneStr
    /\ disk = <<>> /\ sources = SourcePaths


InitRegistry ==
    /\ services \in InitialStores
    /\ StorageIdle
    /\ PluginIdle
    /\ last = NoCall

NextRegistry ==
    \E name \in ServiceNames :
        register_service(name) /\ UNCHANGED <<storage_vars, plugin_vars>>

SpecRegistry == InitRegistry /\ [][NextRegistry]_vars

-----------------------------------------------------------------------------
(* Service registry: two callers, each with a unit of work of its own      *)

\* The callers; each runs register_service once, through its own hoordu
\* object and session, against the store both share.
Callers == {1, 2}

\* A caller that has not called yet.
NotCalled == [pc |-> "idle", name |-> "", service |-> NewService(""),
              found |-> FALSE, result |-> "none", id |-> None]

\* In SpecRace call holds the frames of the two register_service calls and
\* whether the store's schema declares Service.name unique; services holds
\* the rows that have been written to the shared store.
Frame(p) == call.callers[p]

SetFrame(p, frame) == call' = [call EXCEPT !.callers[p] = frame]

\* The call begins.
register_call(p, name) ==
    /\ Frame(p).pc = "idle"
    /\ SetFrame(p, [Frame(p) EXCEPT !.pc = "query", !.name = name])
    /\ UNCHANGED <<services, last>>

\* register_service line 26: the query by name, one_or_none()
register_query(p) ==
    /\ Frame(p).pc = "query"
    /\ LET found == QueryServiceByName(services, Frame(p).name)
       IN  IF Cardinality(found) > 1
           THEN SetFrame(p, [Frame(p) EXCEPT !.pc = "done",
                                             !.result = "MultipleResultsFound"])
           ELSE IF found # {}
           THEN SetFrame(p, [Frame(p) EXCEPT !.pc = "done", !.found = TRUE,
                                             !.result = "ok",
                                             !.id = CHOOSE i \in found : TRUE])
           ELSE SetFrame(p, [Frame(p) EXCEPT !.pc = "create"])
    /\ UNCHANGED <<services, last>>

\* register_service line 32: models.Service(name=name, version=0)
register_create(p) ==
    /\ Frame(p).pc = "create"
    /\ SetFrame(p, [Frame(p) EXCEPT !.pc = "add",
                                    !.service = NewService(Frame(p).name)])
    /\ UNCHANGED <<services, last>>

\* register_service line 33: self.add(service), pending in p's session
register_add(p) ==
    /\ Frame(p).pc = "add"
    /\ SetFrame(p, [Frame(p) EXCEPT !.pc = "flush", !.service.orm = "pending"])
    /\ UNCHANGED <<services, last>>

\* The INSERT of a flush as the shared store takes it: refused when the
\* schema declares the name unique and a row with the name is there.
InsertRefused(row) ==
    call.unique /\ \E i \in DOMAIN services : services[i].name = row.name

\* register_service lines 34-35: self.flush() and return
register_flush(p) ==
    /\ Frame(p).pc = "flush"
    /\ IF InsertRefused(Frame(p).service)
       THEN /\ SetFrame(p, [Frame(p) EXCEPT !.pc = "done",
                                            !.result = "IntegrityError"])
            /\ UNCHANGED services
       ELSE /\ services' = flush(Append(services, Frame(p).service))
            /\ SetFrame(p, [Frame(p) EXCEPT !.pc = "done", !.result = "ok",
                                            !.service.orm = "persistent",
                                            !.service.id = Len(services) + 1,
                                            !.id = Len(services) + 1])
    /\ UNCHANGED last

InitRace ==
    /\ services \in InitialStores
    /\ StorageIdle
    /\ plugin = [cls |-> "PluginBase", iterator |-> "None", repr |-> "base", source |-> None]
    /\ subscriptions = <<>>
    /\ iterators = <<>>
    /\ \E unique \in BOOLEAN :
          call = [pc |-> "register_service", unique |-> unique,
                  callers |-> [p \in Callers |-> NotCalled]]
    /\ last = NoCall

NextRace ==
    \/ \E p \in Callers, name \in ServiceNames :
          register_call(p, name) /\ UNCHANGED <<storage_vars, plugin, subscriptions, iterators>>
    \/ \E p \in Callers :
          register_query(p) /\ UNCHANGED <<storage_vars, plugin, subscriptions, iterators>>
    \/ \E p \in Callers :
          register_create(p) /\ UNCHANGED <<storage_vars, plugin, subscriptions, iterators>>
    \/ \E p \in Callers :
          register_add(p) /\ UNCHANGED <<storage_vars, plugin, subscriptions, iterators>>
    \/ \E p \in Callers :
          register_flush(p) /\ UNCHANGED <<storage_vars, plugin, subscriptions, iterators>>

SpecRace == InitRace /\ [][NextRace]_vars

\* The rows that carry the given name.
ServicesNamed(rows, name) == { i \in DOMAIN rows : rows[i].name = name }

ServiceNamesUnique ==
    \A i, j \in DOMAIN services : services[i].name = services[j].name => i = j

\* What a register_service step does to the store, seen from outside.
RegisteredOnce ==
    (last'.op = "register_service") =>
        LET n     == last'.name
            known == ServicesNamed(services, n)
        IN  /\ last'.result = "ok"
            /\ known # {} =>
                  /\ services' = services
                  /\ last'.service \in known
                  /\ ~last'.created
            /\ known = {} =>
                  /\ Len(services') = Len(services) + 1
                  /\ SubSeq(services', 1, Len(services)) = services
                  /\ ServicesNamed(services', n) = {Len(services')}
                  /\ last'.service = Len(services')
                  /\ last'.created

\* C1: through one session the store holds at most one Service per name: a
\* register_service call with a registered name returns that very record
\* and adds no row, a call with a new name adds exactly one new record and
\* leaves the others alone.
C1_AtMostOneServicePerName ==
    [](ServiceNamesUnique) /\ [][RegisteredOnce]_vars

\* A repeated name was answered with the existing record while a second,
\* independent Service is in the store.
C1_Witness ==
    /\ last.op = "register_service"
    /\ last.result = "ok"
    /\ ~last.created
    /\ Len(services) >= 2
    /\ \E i \in DOMAIN services : services[i].name # last.name

\* C9: register_service never changes an existing Service: a found record
\* is returned with its version and every other field as they were, and a
\* new record has version 0 and is added and flushed (persistent, with its
\* id) when it is returned.
C9_RegisterLeavesServicesUnchanged ==
    [][ (last'.op = "register_service" /\ last'.result = "ok") =>
          /\ \A i \in DOMAIN services :
                i \in DOMAIN services' /\ services'[i] = services[i]
          /\ last'.service \in DOMAIN services'
          /\ last'.created <=> last'.service \notin DOMAIN services
          /\ last'.created =>
                services'[last'.service] =
                    [name |-> last'.name, version |-> 0,
                     id |-> last'.service, orm |-> "persistent"]
      ]_vars

\* An existing Service of a version other than 0 was returned.
C9_Witness ==
    /\ last.op = "register_service"
    /\ last.result = "ok"
    /\ ~last.created
    /\ services[last.service].version > 0

-----------------------------------------------------------------------------
(* Plugins, iterators and subscriptions                                    *)

MaxIterators == 2
MaxSubscriptions == 2
\* init() is called on one iterator at most this often.
MaxInits == 2

SubscriptionNames == {"favs", "feed"}

\* A Dynamic is a sequence of <<key, value>> pairs, in insertion order.
\* NoneDynamic is Python's None where a Dynamic is expected.
NoneDynamic == << <<"None", "None">> >>

\* The options callers search and subscribe with.
SearchOptions == { << <<"user", "alice">>, <<"tag", "art">> >> }

\* Dynamic.to_json: the JSON text, as its sequence of tokens.
RECURSIVE Members(_)
Members(d) ==
    IF d = <<>> THEN <<>>
    ELSE LET m == <<d[1][1], ":", d[1][2]>>
         IN  IF Len(d) = 1 THEN m ELSE m \o <<",">> \o Members(Tail(d))

to_json(d) == <<"{">> \o Members(d) \o <<"}">>

\* Dynamic.from_json: the pairs of a JSON text.
RECURSIVE ParseMembers(_)
ParseMembers(tokens) ==
    IF Len(tokens) < 3 THEN <<>>
    ELSE << <<tokens[1], tokens[3]>> >> \o ParseMembers(SubSeq(tokens, 5, Len(tokens)))

from_json(text) == ParseMembers(SubSeq(text, 2, Len(text) - 1))

\* d[key] = value on a Dynamic.
SetItem(d, key, value) ==
    IF \E i \in DOMAIN d : d[i][1] = key
    THEN [i \in DOMAIN d |-> IF d[i][1] = key THEN <<key, value>> ELSE d[i]]
    ELSE Append(d, <<key, value>>)

\* The plugins: PluginBase or ReverseSearchPluginBase, or a subclass of
\* one of them that sets the iterator class and implements
\* subscription_repr.  The iterator classes: IteratorBase itself, and
\* AdapterIterator, a subclass that overrides init().
Plugins ==
    [cls : {"PluginBase", "ReverseSearchPluginBase"},
     iterator : {"None", "IteratorBase", "AdapterIterator"},
     repr : {"base", "adapter"},
     source : {1}]

\* An iterator that starts from an empty state also when it resumes.
NewIteratorEmptyState(cls, subscription, options) ==
    IF subscription # None
    THEN [cls |-> cls, subscription |-> subscription,
          options |-> from_json(subscriptions[subscription].options),
          state |-> <<>>, inits |-> 0]
    ELSE [cls |-> cls, subscription |-> None, options |-> options,
          state |-> <<>>, inits |-> 0]

\* IteratorBase.__init__.  inits counts the calls of init() on the object.
NewIterator(cls, subscription, options) ==
    IF subscription # None
    THEN [cls |-> cls, subscription |-> subscription,
          options |-> from_json(subscriptions[subscription].options),
          state |-> from_json(subscriptions[subscription].state),
          inits |-> 0]
    ELSE [cls |-> cls, subscription |-> None, options |-> options,
          state |-> <<>>, inits |-> 0]

\* init() of an adapter's iterator: resolves the user to an id and sets
\* the first checkpoint; raises when the source cannot be reached.
AdapterInit(it, outcome) ==
    IF outcome = "APIError"
    THEN [it |-> it, raised |-> "APIError"]
    ELSE IF it.options = NoneDynamic
    THEN [it |-> it, raised |-> "TypeError"]
    ELSE [it |-> [it EXCEPT !.options = SetItem(@, "id", "7"),
                            !.state = SetItem(@, "head", "0")],
          raised |-> "no"]

\* iterator.init(): IteratorBase.init does nothing.
InitRun(it, outcome) ==
    LET called == [it EXCEPT !.inits = @ + 1]
    IN  IF it.cls = "AdapterIterator"
        THEN AdapterInit(called, outcome)
        ELSE [it |-> called, raised |-> "no"]

\* subscription_repr of an adapter: the first option's value.
AdapterRepr(options) == options[1][2]

\* A Subscription built from the options the caller gave.
SubscriptionFromGivenOptions(name, it, given) ==
    IF plugin.repr = "base"
    THEN [raised |-> "NotImplementedError"]
    ELSE IF given = NoneDynamic \/ given = <<>>
    THEN [raised |-> "TypeError"]
    ELSE [raised |-> "no",
          sub |-> [source |-> plugin.source, name |-> name,
                   repr |-> AdapterRepr(given),
                   options |-> to_json(given),
                   state |-> to_json(<<>>),
                   id |-> None, orm |-> "transient"]]

\* subscribe lines 177-183: Subscription(source, name, repr, options,
\* state) from the iterator.  PluginBase.subscription_repr raises
\* NotImplementedError; None has no to_json.
NewSubscription(name, it, given) ==
    IF plugin.repr = "base"
    THEN [raised |-> "NotImplementedError"]
    ELSE IF it.options = NoneDynamic \/ it.options = <<>>
    THEN [raised |-> "TypeError"]
    ELSE [raised |-> "no",
          sub |-> [source |-> plugin.source, name |-> name,
                   repr |-> AdapterRepr(it.options),
                   options |-> to_json(it.options),
                   state |-> to_json(it.state),
                   id |-> None, orm |-> "transient"]]

\* The outcome of a plugin call, for last.
Outcome(op, result, it, sub) ==
    [op |-> op, result |-> result, it |-> it, sub |-> sub]

\* A search that records what was searched for as a Subscription.
SearchAddingSubscription(options) ==
    /\ call = Idle
    /\ IF plugin.iterator = "None"
       THEN /\ last' = Outcome("search", "NotImplementedError", None, None)
            /\ UNCHANGED <<iterators, subscriptions>>
       ELSE /\ Len(iterators) < MaxIterators
            /\ iterators' = Append(iterators,
                                NewIterator(plugin.iterator, None, from_json(options)))
            /\ subscriptions' =
                  IF Len(subscriptions) < MaxSubscriptions
                  THEN add(subscriptions,
                           [source |-> plugin.source, name |-> "favs",
                            repr |-> AdapterRepr(from_json(options)),
                            options |-> options, state |-> to_json(<<>>),
                            id |-> None, orm |-> "transient"])
                  ELSE subscriptions
            /\ last' = Outcome("search", "no", Len(iterators) + 1, None)
    /\ UNCHANGED <<plugin, call>>

\* PluginBase.search and ReverseSearchPluginBase.search (the same body)
search(options) ==
    /\ call = Idle
    /\ IF plugin.iterator = "None"
       THEN /\ last' = Outcome("search", "NotImplementedError", None, None)
            /\ UNCHANGED iterators
       ELSE /\ Len(iterators) < MaxIterators
            /\ iterators' = Append(iterators,
                                NewIterator(plugin.iterator, None, from_json(options)))
            /\ last' = Outcome("search", "no", Len(iterators) + 1, None)
    /\ UNCHANGED <<plugin, subscriptions, call>>

\* PluginBase.get_iterator and ReverseSearchPluginBase.get_iterator
get_iterator(subscription) ==
    /\ call = Idle
    /\ IF plugin.cls = "ReverseSearchPluginBase" \/ plugin.iterator = "None"
       THEN /\ last' = Outcome("get_iterator", "NotImplementedError", None,
                               subscription)
            /\ UNCHANGED iterators
       ELSE /\ Len(iterators) < MaxIterators
            /\ iterators' = Append(iterators,
                                NewIterator(plugin.iterator, subscription, NoneDynamic))
            /\ last' = Outcome("get_iterator", "no", Len(iterators) + 1,
                               subscription)
    /\ UNCHANGED <<plugin, subscriptions, call>>

\* A fetch that moves the checkpoint before it raises.
FetchAdvancingState(it) ==
    [it |-> [it EXCEPT !.state = SetItem(@, "head", "1")],
     raised |-> "NotImplementedError"]

\* IteratorBase.fetch
FetchRun(it) == [it |-> it, raised |-> "NotImplementedError"]

\* iterator.fetch(direction, n)
fetch(i, direction, n) ==
    /\ call = Idle
    /\ LET r == FetchRun(iterators[i])
       IN  /\ iterators' = [iterators EXCEPT ![i] = r.it]
           /\ last' = Outcome("fetch", r.raised, i, iterators[i].subscription)
    /\ UNCHANGED <<plugin, subscriptions, call>>

\* A subscribe that falls back to IteratorBase where the plugin names no
\* iterator class.
SubscribeIteratorDefaulting(name, options, iterator) ==
    /\ call = Idle
    /\ Len(subscriptions) < MaxSubscriptions
    /\ IF iterator # None
       THEN /\ iterators[iterator].inits < MaxInits
            /\ call' = [pc |-> "init", name |-> name, options |-> options,
                        it |-> iterator, inits |-> iterators[iterator].inits]
            /\ UNCHANGED <<iterators, last>>
       ELSE /\ Len(iterators) < MaxIterators
            /\ iterators' = Append(iterators,
                  NewIterator(IF plugin.iterator = "None" THEN "IteratorBase"
                              ELSE plugin.iterator, None, options))
            /\ call' = [pc |-> "init", name |-> name, options |-> options,
                        it |-> Len(iterators) + 1, inits |-> 0]
            /\ UNCHANGED last
    /\ UNCHANGED <<plugin, subscriptions>>

\* PluginBase.subscribe lines 172-173: take the iterator or build one.
\* call.inits is the number of init() calls the iterator has seen before.
\* ReverseSearchPluginBase overrides create_subscription, not subscribe, so
\* its subscribe is this one too.
subscribe_iterator(name, options, iterator) ==
    /\ call = Idle
    /\ Len(subscriptions) < MaxSubscriptions
    /\ IF iterator # None
       THEN /\ iterators[iterator].inits < MaxInits
            /\ call' = [pc |-> "init", name |-> name, options |-> options,
                        it |-> iterator, inits |-> iterators[iterator].inits]
            /\ UNCHANGED <<iterators, last>>
       ELSE IF plugin.iterator = "None"
       THEN \* None is not callable
            /\ last' = Outcome("subscribe", "TypeError", None, None)
            /\ UNCHANGED <<iterators, call>>
       ELSE /\ Len(iterators) < MaxIterators
            /\ iterators' = Append(iterators, NewIterator(plugin.iterator, None, options))
            /\ call' = [pc |-> "init", name |-> name, options |-> options,
                        it |-> Len(iterators) + 1, inits |-> 0]
            /\ UNCHANGED last
    /\ UNCHANGED <<plugin, subscriptions>>

\* The call in progress ends with an exception.
SubscribeRaises(exc) ==
    /\ last' = Outcome("subscribe", exc, call.it, None)
    /\ call' = Idle

\* PluginBase.subscribe line 175: iterator.init()
subscribe_init(outcome) ==
    /\ call.pc = "init"
    /\ LET r == InitRun(iterators[call.it], outcome)
       IN  /\ iterators' = [iterators EXCEPT ![call.it] = r.it]
           /\ IF r.raised # "no"
              THEN SubscribeRaises(r.raised)
              ELSE call' = [call EXCEPT !.pc = "add"] /\ UNCHANGED last
    /\ UNCHANGED <<plugin, subscriptions>>

\* A subscribe that adds nothing when a Subscription with the same source
\* and repr is known already.
SubscribeAddUnlessKnown ==
    /\ call.pc = "add"
    /\ LET r == NewSubscription(call.name, iterators[call.it], call.options)
       IN  IF r.raised # "no"
           THEN SubscribeRaises(r.raised) /\ UNCHANGED subscriptions
           ELSE /\ subscriptions' =
                     IF \E i \in DOMAIN subscriptions :
                           /\ subscriptions[i].source = r.sub.source
                           /\ subscriptions[i].repr = r.sub.repr
                     THEN subscriptions
                     ELSE add(subscriptions, r.sub)
                /\ call' = [call EXCEPT !.pc = "flush"]
                /\ UNCHANGED last
    /\ UNCHANGED <<plugin, iterators>>

\* PluginBase.subscribe lines 177-185: build the Subscription, core.add(sub)
subscribe_add ==
    /\ call.pc = "add"
    /\ LET r == NewSubscription(call.name, iterators[call.it], call.options)
       IN  IF r.raised # "no"
           THEN SubscribeRaises(r.raised) /\ UNCHANGED subscriptions
           ELSE /\ subscriptions' = add(subscriptions, r.sub)
                /\ call' = [call EXCEPT !.pc = "flush"]
                /\ UNCHANGED last
    /\ UNCHANGED <<plugin, iterators>>

\* PluginBase.subscribe line 186: core.flush()
subscribe_flush ==
    /\ call.pc = "flush"
    /\ subscriptions' = flush(subscriptions)
    /\ call' = [call EXCEPT !.pc = "bind"]
    /\ UNCHANGED <<plugin, iterators, last>>

\* PluginBase.subscribe lines 188-190: iterator.subscription = sub, return
subscribe_bind ==
    /\ call.pc = "bind"
    /\ iterators' = [iterators EXCEPT ![call.it].subscription = Len(subscriptions)]
    /\ last' = Outcome("subscribe", "no", call.it, Len(subscriptions))
    /\ call' = Idle
    /\ UNCHANGED <<plugin, subscriptions>>

InitPlugin ==
    /\ services = <<[name |-> "pixiv", version |-> 0, id |-> 1, orm |-> "persistent"]>>
    /\ StorageIdle
    /\ plugin \in Plugins
    /\ subscriptions = <<>>
    /\ iterators = <<>>
    /\ call = Idle
    /\ last = NoCall

PersistentSubscriptions ==
    { i \in DOMAIN subscriptions : subscriptions[i].orm = "persistent" }

NextPlugin ==
    \/ \E options \in SearchOptions :
          search(to_json(options)) /\ UNCHANGED <<services, storage_vars>>
    \/ \E subscription \in PersistentSubscriptions \cup {None} :
          get_iterator(subscription) /\ UNCHANGED <<services, storage_vars>>
    \/ \E i \in DOMAIN iterators, direction \in {"newer", "older"}, n \in {None, 1} :
          fetch(i, direction, n) /\ UNCHANGED <<services, storage_vars>>
    \/ \E name \in SubscriptionNames, options \in SearchOptions \cup {NoneDynamic},
          iterator \in DOMAIN iterators \cup {None} :
          subscribe_iterator(name, options, iterator) /\ UNCHANGED <<services, storage_vars>>
    \/ \E outcome \in {"ok", "APIError"} :
          subscribe_init(outcome) /\ UNCHANGED <<services, storage_vars>>
    \/ subscribe_add /\ UNCHANGED <<services, storage_vars>>
    \/ subscribe_flush /\ UNCHANGED <<services, storage_vars>>
    \/ subscribe_bind /\ UNCHANGED <<services, storage_vars>>

SpecPlugin == InitPlugin /\ [][NextPlugin]_vars

-----------------------------------------------------------------------------
(* Plugins, iterators and subscriptions: properties                        *)

\* C2: on a reverse-search-only plugin subscribe and get_iterator both
\* fail at once, whatever their arguments: no init() runs, no Subscription
\* is added, no iterator is returned or bound.
C2_ReverseSearchRefusesSubscriptions ==
    plugin.cls = "ReverseSearchPluginBase" =>
        /\ subscriptions = <<>>
        /\ \A i \in DOMAIN iterators :
              iterators[i].inits = 0 /\ iterators[i].subscription = None
        /\ last.op \in {"subscribe", "get_iterator"} => last.result # "no"

\* C4: a fetch that raises leaves the iterator's state and the persisted
\* state of its Subscription as they were, and the exception reaches the
\* caller.  IteratorBase.fetch, the one fetch there is, always raises.
C4_FailedFetchKeepsState ==
    [][ (last'.op = "fetch" /\ call = Idle /\ call' = Idle) =>
          /\ last'.result # "no"
          /\ iterators'[last'.it].state = iterators[last'.it].state
          /\ iterators'[last'.it].options = iterators[last'.it].options
          /\ subscriptions' = subscriptions
      ]_vars

\* A fetch raised on an iterator bound to a Subscription with a checkpoint,
\* and the iterator's state is still the persisted one.
C4_Witness ==
    /\ last.op = "fetch"
    /\ last.result = "NotImplementedError"
    /\ last.sub # None
    /\ iterators[last.it].state # <<>>
    /\ subscriptions[last.sub].state = to_json(iterators[last.it].state)

\* The row the subscribe call in progress has added.
CallRow == subscriptions[Len(subscriptions)]

\* The row is the serialization of the iterator as it is now.
RowFrozenFrom(row, it) ==
    /\ row.source = plugin.source
    /\ row.repr = AdapterRepr(it.options)
    /\ row.options = to_json(it.options)
    /\ row.state = to_json(it.state)

\* C7: subscribe builds or takes the iterator, runs init() on it, then
\* adds one Subscription that holds the repr and the serialized options and
\* state of the iterator as init() left them, flushes, and only then binds
\* the iterator; the iterator it returns is bound to that new row, whose
\* source is the plugin's Service and whose name is the given name.
C7_SubscribeOrder ==
    /\ call.pc = "init" =>
          /\ iterators[call.it].inits = call.inits
          /\ \A i \in DOMAIN subscriptions : subscriptions[i].orm = "persistent"
    /\ call.pc = "add" =>
          /\ iterators[call.it].inits = call.inits + 1
          /\ \A i \in DOMAIN subscriptions : subscriptions[i].orm = "persistent"
    /\ call.pc = "flush" =>
          /\ iterators[call.it].inits = call.inits + 1
          /\ CallRow.orm = "pending" /\ CallRow.id = None
          /\ CallRow.name = call.name
          /\ RowFrozenFrom(CallRow, iterators[call.it])
          /\ iterators[call.it].subscription # Len(subscriptions)
    /\ call.pc = "bind" =>
          /\ iterators[call.it].inits = call.inits + 1
          /\ CallRow.orm = "persistent" /\ CallRow.id = Len(subscriptions)
          /\ CallRow.name = call.name
          /\ RowFrozenFrom(CallRow, iterators[call.it])
          /\ iterators[call.it].subscription # Len(subscriptions)
    /\ (call = Idle /\ last.op = "subscribe" /\ last.result = "no") =>
          /\ last.sub = Len(subscriptions)
          /\ iterators[last.it].subscription = last.sub
          /\ CallRow.orm = "persistent"
          /\ RowFrozenFrom(CallRow, iterators[last.it])
    /\ \A i \in DOMAIN iterators :
          iterators[i].subscription # None =>
              subscriptions[iterators[i].subscription].orm = "persistent"

\* subscribe returned an iterator whose init() had changed its options
\* and state: the row holds them as init() left them.
C7_Witness ==
    /\ call = Idle
    /\ last.op = "subscribe" /\ last.result = "no"
    /\ iterators[last.it].cls = "AdapterIterator"
    /\ iterators[last.it].options \notin SearchOptions
    /\ iterators[last.it].state # <<>>
    /\ RowFrozenFrom(subscriptions[last.sub], iterators[last.it])
    /\ iterators[last.it].subscription = last.sub

\* C8: init() runs once per Subscription, when the Subscription is first
\* created: search and get_iterator never run it, every Subscription is
\* added after exactly one init() of its call, and an iterator that is bound
\* to a Subscription never has init() run on it again.
C8_InitOnlyOnFirstBinding ==
    [][ /\ (last'.op \in {"search", "get_iterator"} /\ call = Idle /\ call' = Idle) =>
              /\ \A i \in DOMAIN iterators : iterators'[i].inits = iterators[i].inits
              /\ \A i \in DOMAIN iterators' \ DOMAIN iterators : iterators'[i].inits = 0
        /\ Len(subscriptions') > Len(subscriptions) =>
              iterators[call.it].inits = call.inits + 1
        /\ \A i \in DOMAIN iterators :
              iterators[i].subscription # None =>
                  iterators'[i].inits = iterators[i].inits
      ]_vars

\* The two parts of C8 that do not concern bound iterators.
InitNotRunBySearchOrResume ==
    [][ /\ (last'.op \in {"search", "get_iterator"} /\ call = Idle /\ call' = Idle) =>
              /\ \A i \in DOMAIN iterators : iterators'[i].inits = iterators[i].inits
              /\ \A i \in DOMAIN iterators' \ DOMAIN iterators : iterators'[i].inits = 0
        /\ Len(subscriptions') > Len(subscriptions) =>
              iterators[call.it].inits = call.inits + 1
      ]_vars

\* C11: the iterator get_iterator(sub) returns is bound to sub and has the
\* options and state that sub.options and sub.state deserialize to; they
\* are those of every other iterator bound to sub, the one that subscribed
\* (as init() left it) among them.
C11_ResumeRoundTrips ==
    (call = Idle /\ last.op = "get_iterator" /\ last.result = "no" /\ last.sub # None) =>
        LET it  == iterators[last.it]
            row == subscriptions[last.sub]
        IN  /\ it.subscription = last.sub
            /\ it.options = from_json(row.options)
            /\ it.state = from_json(row.state)
            /\ \A j \in DOMAIN iterators :
                  iterators[j].subscription = last.sub =>
                      /\ iterators[j].options = it.options
                      /\ iterators[j].state = it.state

\* A Subscription was resumed while the iterator that subscribed, whose
\* init() had set options and state, is still bound to it.
C11_Witness ==
    /\ call = Idle
    /\ last.op = "get_iterator" /\ last.result = "no" /\ last.sub # None
    /\ iterators[last.it].inits = 0
    /\ iterators[last.it].state # <<>>
    /\ iterators[last.it].options \notin SearchOptions
    /\ \E j \in DOMAIN iterators :
          /\ j # last.it
          /\ iterators[j].inits >= 1
          /\ iterators[j].subscription = last.sub
          /\ iterators[j].options = iterators[last.it].options
          /\ iterators[j].state = iterators[last.it].state

\* C12: a search adds and modifies no Subscription row and rebinds no
\* iterator; the iterator it returns is unbound, holds the options it was
\* given and an empty state.  Subscription rows change only inside a
\* subscribe call.
C12_SearchLeavesStoreUntouched ==
    [][ /\ (call = Idle /\ call' = Idle /\ last'.op = "search") =>
            /\ subscriptions' = subscriptions
            /\ \A i \in DOMAIN iterators : iterators'[i] = iterators[i]
            /\ last'.result = "no" =>
                  /\ iterators' = Append(iterators, iterators'[last'.it])
                  /\ iterators'[last'.it].subscription = None
                  /\ iterators'[last'.it].options \in SearchOptions
                  /\ iterators'[last'.it].state = <<>>
        /\ subscriptions' # subscriptions =>
              call.pc \in {"add", "flush"}
      ]_vars

\* A search has returned an unbound iterator while Subscriptions exist.
C12_Witness ==
    /\ call = Idle
    /\ last.op = "search" /\ last.result = "no"
    /\ subscriptions # <<>>
    /\ iterators[last.it].subscription = None
    /\ iterators[last.it].options \in SearchOptions
    /\ iterators[last.it].state = <<>>

\* C13: the ext stored for an original is what follows the first dot
\* after the file name's leading dots, or empty when there is no such dot
\* or the name ends with a dot (pathlib's suffixes, joined, less the first
\* dot): photo.jpeg gives jpeg, archive.tar.gz gives tar.gz, a name
\* without a dot gives the empty string.
C13_ExtIsJoinedSuffixes ==
    last.op = "ext" =>
        LET name == last.name
            lead == CHOOSE k \in 0..Len(name) :
                        /\ \A i \in 1..k : name[i] = "."
                        /\ k = Len(name) \/ name[k + 1] # "."
            dots == { i \in DOMAIN name : i > lead /\ name[i] = "." }
        IN  /\ (dots = {} \/ name[Len(name)] = ".") => file.ext = <<>>
            /\ (dots # {} /\ name[Len(name)] # ".") =>
                  \E k \in dots :
                      /\ \A j \in dots : k <= j
                      /\ name = SubSeq(name, 1, k) \o file.ext
            /\ name = <<"photo", ".", "jpeg">> => file.ext = <<"jpeg">>
            /\ name = <<"archive", ".", "tar", ".", "gz">> =>
                  file.ext = <<"tar", ".", "gz">>
            /\ (\A i \in DOMAIN name : name[i] # ".") => file.ext = <<>>

\* The ext of archive.tar.gz has been computed and holds both suffixes.
C13_Witness ==
    /\ last.op = "ext"
    /\ last.name = <<"archive", ".", "tar", ".", "gz">>
    /\ file.ext = <<"tar", ".", "gz">>

\* The File's hash, mime and ext are those derived from the original orig.
MetadataOf(f, orig) ==
    /\ f.hash = md5(orig)
    /\ f.mime = mime_from_file(orig)
    /\ f.ext = ExtOf(SourceTable[orig].name)

\* The File's hash, mime and ext are the same in f and g.
SameMetadata(f, g) == f.hash = g.hash /\ f.mime = g.mime /\ f.ext = g.ext

\* C14 as stated: a call of import_file without an original leaves hash,
\* mime and ext as they were, and every call with an original leaves the
\* three derived from that original.
C14_MetadataWrittenIffOrig ==
    [][ (last'.op = "import_file") =>
          IF last'.orig = None
          THEN SameMetadata(file', file)
          ELSE MetadataOf(file', last'.orig)
      ]_vars

\* C14, amended: a call of import_file without an original leaves hash,
\* mime and ext as they were; a call with an original that exists leaves
\* the three derived from that original, whatever they were before and
\* also when the call raises later; a call whose original does not exist
\* raises FileNotFoundError and leaves the three as they were.
C14_MetadataWrittenIffOrigRead ==
    [][ (last'.op = "import_file") =>
          IF last'.orig = None
          THEN SameMetadata(file', file)
          ELSE IF last'.orig \in sources
          THEN MetadataOf(file', last'.orig)
          ELSE /\ SameMetadata(file', file)
               /\ last'.result = "FileNotFoundError"
               /\ last'.at = "metadata"
      ]_vars

\* A call with the second original has replaced the metadata of the
\* first, whose bytes an earlier call had stored, and raised afterwards.
C14_Witness ==
    /\ last.op = "import_file"
    /\ last.orig = 2
    /\ last.result = "OSError" /\ last.at = "orig"
    /\ MetadataOf(file, 2)
    /\ file.file_present
    /\ ExpectedPaths(file.id)[1] \in DOMAIN disk
    /\ disk[ExpectedPaths(file.id)[1]] = SourceTable[1].bytes

\* C15: when two register_service calls for one name have both returned,
\* and the name was not registered when the first of them looked it up,
\* the store holds exactly one Service with that name and both callers
\* hold it.
C15_OneServiceWhenInterleaved ==
    call.pc = "register_service" =>
        \A p, q \in Callers :
            ( /\ p # q
              /\ Frame(p).pc = "done" /\ Frame(q).pc = "done"
              /\ Frame(p).name = Frame(q).name
              /\ ~Frame(p).found \/ ~Frame(q).found ) =>
                /\ Cardinality(ServicesNamed(services, Frame(p).name)) = 1
                /\ Frame(p).result = "ok" /\ Frame(q).result = "ok"
                /\ Frame(p).id = Frame(q).id

\* The Subscription rows the session has not written yet.
PendingSubscriptions ==
    { i \in DOMAIN subscriptions : subscriptions[i].orm # "persistent" }

\* C16: every subscribe call that returns has added exactly one
\* Subscription row, whatever rows exist already: the rows change only
\* where the call adds its row behind the others and where its flush
\* writes that one row, the call returns that row, and nothing else that
\* persists (the Services, the File, the stored content) changes.
C16_SubscribeAddsOneRow ==
    [][ /\ subscriptions' # subscriptions =>
              \/ /\ call.pc = "add" /\ call'.pc = "flush"
                 /\ Len(subscriptions') = Len(subscriptions) + 1
                 /\ SubSeq(subscriptions', 1, Len(subscriptions)) = subscriptions
              \/ /\ call.pc = "flush" /\ call'.pc = "bind"
                 /\ Len(subscriptions') = Len(subscriptions)
                 /\ \A i \in DOMAIN subscriptions :
                        IF i \in PendingSubscriptions
                        THEN subscriptions'[i] =
                                [subscriptions[i] EXCEPT !.orm = "persistent", !.id = i]
                        ELSE subscriptions'[i] = subscriptions[i]
        /\ call.pc \in {"idle", "init", "add", "bind"} => PendingSubscriptions = {}
        /\ call.pc = "flush" => PendingSubscriptions = {Len(subscriptions)}
        /\ (call.pc = "bind" /\ call' = Idle) =>
              /\ last'.op = "subscribe" /\ last'.result = "no"
              /\ last'.sub = Len(subscriptions)
        /\ (call' = Idle /\ last'.op = "subscribe" /\ last'.result = "no"
                /\ last' # last) => call.pc = "bind"
        /\ services' = services /\ file' = file /\ disk' = disk
      ]_vars

\* A subscribe call has returned a second Subscription whose source and
\* repr are those of the first, which is as it was written.
C16_Witness ==
    /\ call = Idle
    /\ last.op = "subscribe" /\ last.result = "no" /\ last.sub = 2
    /\ Len(subscriptions) = 2
    /\ subscriptions[1].source = subscriptions[2].source
    /\ subscriptions[1].repr = subscriptions[2].repr
    /\ subscriptions[1].orm = "persistent" /\ subscriptions[1].id = 1
    /\ subscriptions[2].orm = "persistent" /\ subscriptions[2].id = 2

\* C17: whenever file_present is true, the File's hash, mime and ext are
\* those derived from the original whose bytes are stored at the File's
\* original path.
C17_MetadataMatchesStoredOriginal ==
    file.file_present =>
        \E orig \in SourcePaths :
            /\ ExpectedPaths(file.id)[1] \in DOMAIN disk
            /\ disk[ExpectedPaths(file.id)[1]] = SourceTable[orig].bytes
            /\ MetadataOf(file, orig)

\* C18: on a plugin whose iterator class is not set, search and
\* get_iterator raise NotImplementedError and subscribe without an
\* iterator raises, all before any effect: no iterator is ever built, no
\* subscribe call gets as far as init(), no Subscription is added.
C18_NoIteratorClassFailsFirst ==
    plugin.iterator = "None" =>
        /\ iterators = <<>>
        /\ subscriptions = <<>>
        /\ call = Idle
        /\ last.op \in {"search", "get_iterator"} =>
              last.result = "NotImplementedError"
        /\ last.op = "subscribe" =>
              last.result = "TypeError" /\ last.it = None /\ last.sub = None

\* subscribe without an iterator has raised on a plugin without an
\* iterator class.
C18_Witness ==
    /\ plugin.iterator = "None"
    /\ plugin.cls = "PluginBase"
    /\ last.op = "subscribe" /\ last.result = "TypeError"
    /\ iterators = <<>> /\ subscriptions = <<>> /\ call = Idle

====
